---- MODULE Spec2Model ----
(***************************************************************************)
(* A model of pysubs3: the time codec (pysubs3/time.py), the SubRip and    *)
(* WebVTT adapters (pysubs3/subrip.py, pysubs3/webvtt.py), the format      *)
(* detector (pysubs3/formats.py) and the subtitle event                    *)
(* (pysubs3/ssaevent.py).  Text is modelled as a sequence of tokens: a     *)
(* token is one character, one timestamp, one override block {...}, one    *)
(* HTML tag or one format marker.                                          *)
(***************************************************************************)
EXTENDS Integers, Sequences, FiniteSets, TLC

VARIABLES
    pc,        \* position of the caller: which call is next, or "done"
    arg,       \* the arguments of the call in progress
    ret,       \* the value returned (or the exception raised) by the last call
    subs,      \* the SSAFile: [events, styles]
    fp,        \* the text file: the sequence of chunks written by print()
    warned     \* the warnings emitted so far (warnings.warn)

vars == <<pc, arg, ret, subs, fp, warned>>

None == [k |-> "None"]

(***************************************************************************)
(* Generic helpers                                                         *)
(***************************************************************************)
Max(a, b) == IF a >= b THEN a ELSE b
Min(a, b) == IF a <= b THEN a ELSE b

\* Python's divmod for a non-negative dividend and a positive divisor
DivMod(a, b) == <<a \div b, a % b>>

RECURSIVE Digits(_)
\* the decimal digits of n >= 0, most significant first (f"{n:d}")
Digits(n) == IF n < 10 THEN <<n>> ELSE Digits(n \div 10) \o <<n % 10>>

RECURSIVE ZeroPad(_, _)
\* f"{n:0wd}": at least w digits, padded on the left with zeros
ZeroPad(ds, w) == IF Len(ds) >= w THEN ds ELSE ZeroPad(<<0>> \o ds, w)

RECURSIVE IntOf(_)
\* Python's int() of a non-empty string of decimal digits
IntOf(ds) == IF Len(ds) = 0 THEN 0
           ELSE 10 * IntOf(SubSeq(ds, 1, Len(ds) - 1)) + ds[Len(ds)]

RECURSIVE Pow10(_)
Pow10(n) == IF n <= 0 THEN 1 ELSE 10 * Pow10(n - 1)

(***************************************************************************)
(* Tokens of a text                                                        *)
(***************************************************************************)
\* one character
Ch(c) == [k |-> "ch", c |-> c, g |-> <<>>]
\* one timestamp H:M:S<sep>F; h, m, s, f are digit strings (h may be absent)
Ts(h, m, s, sep, f) == [k |-> "ts", c |-> sep, g |-> <<h, m, s, f>>]
\* one override block {\tag\tag...}; tags is the sequence of its directives
Block(tags) == [k |-> "block", c |-> "{}", g |-> tags]
\* one HTML tag such as <i> or </i>
Html(name) == [k |-> "html", c |-> name, g |-> <<>>]
\* a format marker such as [Script Info] or WEBVTT, or the arrow -->
Mark(name) == [k |-> "mark", c |-> name, g |-> <<>>]

NL == Ch("\n")
SP == Ch(" ")
Arrow == Mark("-->")

IsSpace(t) == t.k = "ch" /\ t.c \in {" ", "\n"}
IsDigit(t) == t.k = "ch" /\ t.c \in {"0", "1", "2", "3", "4", "5", "6", "7", "8", "9"}

DigitChar(d) == Ch(CASE d = 0 -> "0" [] d = 1 -> "1" [] d = 2 -> "2" [] d = 3 -> "3"
                     [] d = 4 -> "4" [] d = 5 -> "5" [] d = 6 -> "6" [] d = 7 -> "7"
                     [] d = 8 -> "8" [] OTHER -> "9")

\* str(n) for n >= 0, as characters
Str(n) == [i \in 1..Len(Digits(n)) |-> DigitChar(Digits(n)[i])]

(***************************************************************************)
(* pysubs3/timestamps.py (Timestamps.from_fps): a constant-rate frame      *)
(* table.  A rate is the fraction num/den frames per second.               *)
(***************************************************************************)
START == "START"
END == "END"

\* ceil(a / b) for a >= 0, b > 0
CeilDiv(a, b) == (a + b - 1) \div b

\* the first millisecond of frame f
FirstMsOfFrame(f, fps) == CeilDiv(f * 1000 * fps.den, fps.num)

\* Timestamps.frames_to_ms(frame, time_type): START is the first ms of the
\* frame, END the last ms before the next frame starts
Timestamps_frames_to_ms(fps, frame, time_type) ==
    IF time_type = START THEN FirstMsOfFrame(frame, fps)
    ELSE FirstMsOfFrame(frame + 1, fps) - 1

\* Timestamps.ms_to_frames(ms, time_type): the frame containing ms; for END a
\* ms exactly on a frame boundary belongs to the frame before it
Timestamps_ms_to_frames(fps, ms, time_type) ==
    LET index == (ms * fps.num) \div (1000 * fps.den)
    IN  IF time_type = END /\ FirstMsOfFrame(index, fps) = ms THEN index - 1
        ELSE index

(***************************************************************************)
(* pysubs3/time.py                                                         *)
(***************************************************************************)
\* times_to_ms(h, m, s, ms), integer arguments
times_to_ms(h, m, s, ms) == ms + s * 1000 + m * 60000 + h * 3600000

\* ms_to_times(ms): the normalized tuple (h, m, s, ms)
ms_to_times(ms) ==
    LET a == DivMod(ms, 3600000)
        b == DivMod(a[2], 60000)
        c == DivMod(b[2], 1000)
    IN  [h |-> a[1], m |-> b[1], s |-> c[1], ms |-> c[2]]

\* timestamp_to_ms(groups), groups = (h, m, s, frac) as digit strings
timestamp_to_ms(groups) ==
    LET h == IntOf(groups[1])
        m == IntOf(groups[2])
        s == IntOf(groups[3])
        frac == IntOf(groups[4])
        ms == frac * Pow10(3 - Len(groups[4]))
    IN  ms + s * 1000 + m * 60000 + h * 3600000

\* an optional argument that was given
Some(v) == [k |-> "some", v |-> v]

\* make_time(h, m, s, ms, frames, fps, time_type); an optional argument is None
\* or Some(value), fps is a constant rate
make_time(h, m, s, ms, frames, fps, time_type) ==
    IF frames = None /\ fps = None /\ time_type = None
    THEN [k |-> "return", value |-> times_to_ms(h, m, s, ms)]
    ELSE IF frames # None /\ fps # None /\ time_type # None
    THEN [k |-> "return",
          value |-> Timestamps_frames_to_ms(fps.v, frames.v, time_type.v)]
    ELSE [k |-> "raise", exc |-> "ValueError"]

(***************************************************************************)
(* pysubs3/subrip.py, pysubs3/webvtt.py: timestamps                        *)
(***************************************************************************)
\* Largest timestamp allowed in SubRip, ie. 99:59:59,999
MAX_REPRESENTABLE_TIME == make_time(100, 0, 0, 0, None, None, None).value - 1

OverflowWarning == "RuntimeWarning: Overflow in SubRip timestamp"

\* mutant: the overflow is warned about but the value is not replaced
SubripFormat_ms_to_timestamp_noclamp(ms) ==
    LET a == IF ms < 0 THEN 0 ELSE ms
        over == a > MAX_REPRESENTABLE_TIME
        t == ms_to_times(a)
    IN  [str |-> Ts(ZeroPad(Digits(t.h), 2), ZeroPad(Digits(t.m), 2),
                    ZeroPad(Digits(t.s), 2), ",", ZeroPad(Digits(t.ms), 3)),
         warn |-> IF over THEN <<OverflowWarning>> ELSE <<>>]

\* SubripFormat.ms_to_timestamp(ms): the string and the warnings it emits
SubripFormat_ms_to_timestamp(ms) ==
    LET a == IF ms < 0 THEN 0 ELSE ms
        over == a > MAX_REPRESENTABLE_TIME
        b == IF over THEN MAX_REPRESENTABLE_TIME ELSE a
        t == ms_to_times(b)
    IN  [str |-> Ts(ZeroPad(Digits(t.h), 2), ZeroPad(Digits(t.m), 2),
                    ZeroPad(Digits(t.s), 2), ",", ZeroPad(Digits(t.ms), 3)),
         warn |-> IF over THEN <<OverflowWarning>> ELSE <<>>]

\* str.replace(',', '.') on a timestamp
ReplaceComma(ts) == IF ts.c = "," THEN [ts EXCEPT !.c = "."] ELSE ts

\* WebVTTFormat.ms_to_timestamp(ms)
WebVTTFormat_ms_to_timestamp(ms) ==
    LET r == SubripFormat_ms_to_timestamp(ms)
    IN  [r EXCEPT !.str = ReplaceComma(r.str)]

ms_to_timestamp(format, ms) ==
    IF format = "vtt" THEN WebVTTFormat_ms_to_timestamp(ms)
    ELSE SubripFormat_ms_to_timestamp(ms)

(***************************************************************************)
(* Specification of the timestamp stringifiers                             *)
(***************************************************************************)
StampFormats == {"srt", "vtt"}

\* the instants the stringifiers are called with
StampSamples ==
    { times_to_ms(h, m, s, f) : h \in {0, 9, 10, 99, 100}, m \in {0, 59},
                                s \in {0, 59}, f \in {0, 1, 999} }
    \cup {-1, -1000, -360000000}

InitStamp ==
    /\ pc = "stamp"
    /\ arg \in [format : StampFormats, ms : StampSamples]
    /\ ret = None
    /\ subs = None
    /\ fp = <<>>
    /\ warned = <<>>

CallMsToTimestamp ==
    /\ pc = "stamp"
    /\ LET r == ms_to_timestamp(arg.format, arg.ms)
       IN  /\ ret' = r.str
           /\ warned' = warned \o r.warn
    /\ pc' = "done"
    /\ UNCHANGED <<arg, subs, fp>>

NextStamp == CallMsToTimestamp

SpecStamp == InitStamp /\ [][NextStamp]_vars

\* C10: for every integer ms the stringifier returns the rendering of
\* min(max(ms, 0), 99:59:59,999) as HH:MM:SS,mmm (WebVTT: '.' separator) with
\* minutes and seconds below 60 and milliseconds below 1000; it warns exactly
\* when ms is above the maximum.
C10_StampClamped ==
    (pc = "done" /\ arg.format \in StampFormats) =>
        LET top == 99 * 3600000 + 59 * 60000 + 59 * 1000 + 999
            want == IF arg.ms < 0 THEN 0 ELSE IF arg.ms > top THEN top ELSE arg.ms
            h == ret.g[1]
            m == ret.g[2]
            s == ret.g[3]
            f == ret.g[4]
        IN  /\ ret.k = "ts"
            /\ Len(h) = 2 /\ Len(m) = 2 /\ Len(s) = 2 /\ Len(f) = 3
            /\ ret.c = (IF arg.format = "vtt" THEN "." ELSE ",")
            /\ IntOf(m) < 60 /\ IntOf(s) < 60 /\ IntOf(f) < 1000
            /\ IntOf(h) * 3600000 + IntOf(m) * 60000 + IntOf(s) * 1000 + IntOf(f) = want
            /\ (arg.ms > top <=> warned = <<OverflowWarning>>)
            /\ (arg.ms <= top <=> warned = <<>>)

\* C10 witness: a value above the maximum was clamped and warned about
C10_Witness ==
    /\ pc = "done" /\ arg.format = "vtt" /\ arg.ms > MAX_REPRESENTABLE_TIME
    /\ warned # <<>>
    /\ ret = Ts(<<9, 9>>, <<5, 9>>, <<5, 9>>, ".", <<9, 9, 9>>)

(***************************************************************************)
(* pysubs3/time.py: frames                                                 *)
(***************************************************************************)
\* mutant: the boundary kind is not passed on (always START)
frames_to_ms_start_only(frames, fps, time_type) ==
    Timestamps_frames_to_ms(fps, frames, START)

\* frames_to_ms(frames, fps, time_type)
frames_to_ms(frames, fps, time_type) ==
    Timestamps_frames_to_ms(fps, frames, time_type)

\* ms_to_frames(ms, fps, time_type)
ms_to_frames(ms, fps, time_type) ==
    Timestamps_ms_to_frames(fps, ms, time_type)

(***************************************************************************)
(* Specification of the frame round trip                                   *)
(***************************************************************************)
MaxFrame == 12

Fps(num, den) == [num |-> num, den |-> den]

\* the frame rates tried: 23.976, 25, 60, 500, 1000 and 2000 frames per second
FrameRates == {Fps(24000, 1001), Fps(25, 1), Fps(60, 1), Fps(500, 1),
               Fps(1000, 1), Fps(2000, 1)}

InitFrames ==
    /\ pc = "frames_to_ms"
    /\ arg \in [frames : 0..MaxFrame, fps : FrameRates, time_type : {START, END}]
    /\ ret = None
    /\ subs = None
    /\ fp = <<>>
    /\ warned = <<>>

CallFramesToMs ==
    /\ pc = "frames_to_ms"
    /\ ret' = [ms |-> frames_to_ms(arg.frames, arg.fps, arg.time_type)]
    /\ pc' = "ms_to_frames"
    /\ UNCHANGED <<arg, subs, fp, warned>>

CallMsToFrames ==
    /\ pc = "ms_to_frames"
    /\ ret' = [ms |-> ret.ms, frames |-> ms_to_frames(ret.ms, arg.fps, arg.time_type)]
    /\ pc' = "done"
    /\ UNCHANGED <<arg, subs, fp, warned>>

NextFrames == CallFramesToMs \/ CallMsToFrames

SpecFrames == InitFrames /\ [][NextFrames]_vars

TIMESTAMP_matches(t) ==
    /\ t.k = "ts"
    /\ Len(t.g[1]) >= 1 /\ Len(t.g[2]) >= 1 /\ Len(t.g[3]) >= 1 /\ Len(t.g[4]) >= 1
    /\ t.c \in {".", ","}

\* the groups of a TIMESTAMP match: the last two digits of the hours
TIMESTAMP_groups(t) ==
    LET h == t.g[1]
    IN  <<SubSeq(h, Max(1, Len(h) - 1), Len(h)), t.g[2], t.g[3], t.g[4]>>

\* WebVTTFormat.TIMESTAMP: (\d{0,4}:)?(\d{2}):(\d{2})\.(\d{2,3})
WebVTT_TIMESTAMP_matches(t) ==
    /\ t.k = "ts"
    /\ Len(t.g[2]) = 2 /\ Len(t.g[3]) = 2 /\ Len(t.g[4]) >= 2
    /\ t.c = "."

Pattern_matches(format, t) ==
    IF format = "vtt" THEN WebVTT_TIMESTAMP_matches(t) ELSE TIMESTAMP_matches(t)

Pattern_groups(format, t) ==
    IF format = "vtt" THEN t.g ELSE TIMESTAMP_groups(t)

RECURSIVE FindAll(_, _)
\* cls.TIMESTAMP.findall(line): the groups of every match, left to right
FindAll(format, line) ==
    IF line = <<>> THEN <<>>
    ELSE (IF Pattern_matches(format, Head(line))
          THEN <<Pattern_groups(format, Head(line))>> ELSE <<>>)
         \o FindAll(format, Tail(line))

\* substring in text, for a marker
Contains(lines, name) ==
    \E i \in 1..Len(lines) : \E j \in 1..Len(lines[i]) : lines[i][j] = Mark(name)

RECURSIVE Flatten(_)
\* the tokens of the lines, a line break after each line
Flatten(lines) ==
    IF lines = <<>> THEN <<>> ELSE Head(lines) \o <<NL>> \o Flatten(Tail(lines))

RECURSIVE LStrip(_)
\* str.lstrip()
LStrip(text) ==
    IF text # <<>> /\ IsSpace(Head(text)) THEN LStrip(Tail(text)) ELSE text

RECURSIVE RStrip(_)
\* str.rstrip()
RStrip(text) ==
    IF text # <<>> /\ IsSpace(text[Len(text)])
    THEN RStrip(SubSeq(text, 1, Len(text) - 1)) ELSE text

\* str.strip()
Strip(text) == LStrip(RStrip(text))

\* text.lstrip().startswith("WEBVTT")
StartsWithWEBVTT(lines) ==
    LET t == LStrip(Flatten(lines)) IN t # <<>> /\ Head(t) = Mark("WEBVTT")

(***************************************************************************)
(* guess_format of the registered format classes                           *)
(***************************************************************************)
\* the value None of a guess
NoGuess == "<None>"

\* mutant: the SubRip class does not stand back for SubStation markers
SubripFormat_guess_format_no_substation(lines) ==
    IF StartsWithWEBVTT(lines) THEN NoGuess
    ELSE IF \E i \in 1..Len(lines) : Len(FindAll("srt", lines[i])) = 2 THEN "srt"
    ELSE NoGuess

\* SubripFormat.guess_format(text)
SubripFormat_guess_format(lines) ==
    IF Contains(lines, "[Script Info]") \/ Contains(lines, "[V4+ Styles]") THEN NoGuess
    ELSE IF StartsWithWEBVTT(lines) THEN NoGuess
    ELSE IF \E i \in 1..Len(lines) : Len(FindAll("srt", lines[i])) = 2 THEN "srt"
    ELSE NoGuess

\* WebVTTFormat.guess_format(text)
WebVTTFormat_guess_format(lines) ==
    IF StartsWithWEBVTT(lines) THEN "vtt" ELSE NoGuess

\* SubstationFormat.guess_format(text): the possible guesses.  A styles
\* section names the dialect; a text with [Script Info] alone may or may not
\* be recognised.
SubstationFormat_guess_format(lines) ==
    IF Contains(lines, "[V4+ Styles]") THEN {"ass"}
    ELSE IF Contains(lines, "[V4 Styles]") THEN {"ssa"}
    ELSE IF Contains(lines, "[Script Info]") THEN {"ass", NoGuess}
    ELSE {NoGuess}

\* MicroDVDFormat.guess_format(text): a line with the {start}{end} signature
MicroDVDFormat_guess_format(lines) ==
    IF Contains(lines, "{0}{25}") THEN "microdvd" ELSE NoGuess

\* MPL2Format.guess_format(text): a line with the [start][end] signature
MPL2Format_guess_format(lines) ==
    IF Contains(lines, "[0][25]") THEN "mpl2" ELSE NoGuess

\* TmpFormat.guess_format(text): a line with the HH:MM:SS: signature
TmpFormat_guess_format(lines) ==
    IF Contains(lines, "00:00:01:") THEN "tmp" ELSE NoGuess

\* JSONFormat.guess_format(text): the text opens a JSON object
JSONFormat_guess_format(lines) ==
    LET t == Flatten(lines) IN
    IF t # <<>> /\ Head(t) = Mark("{\"") THEN "json" ELSE NoGuess

\* the guesses of FORMAT_IDENTIFIER_TO_FORMAT_CLASS.values(), in order, for
\* the guess sub of the SubstationFormat class (registered as ass and as ssa)
Guesses(lines, sub) ==
    << SubripFormat_guess_format(lines), sub, sub,
       MicroDVDFormat_guess_format(lines), JSONFormat_guess_format(lines),
       MPL2Format_guess_format(lines), TmpFormat_guess_format(lines),
       WebVTTFormat_guess_format(lines) >>

(***************************************************************************)
(* pysubs3/formats.py                                                      *)
(***************************************************************************)
RECURSIVE CollectFormats(_, _)
\* the loop of autodetect_format: formats.add(guess) for every guess not None
CollectFormats(guesses, formats) ==
    IF guesses = <<>> THEN formats
    ELSE CollectFormats(Tail(guesses),
                        IF Head(guesses) # NoGuess THEN formats \cup {Head(guesses)}
                        ELSE formats)

Return(v) == [k |-> "return", value |-> v]
Raise(exc, msg, formats) == [k |-> "raise", exc |-> exc, msg |-> msg, formats |-> formats]

\* mutant: any non-empty set of guesses yields one of them
autodetect_format_pick(guesses) ==
    LET formats == CollectFormats(guesses, {})
    IN  IF formats # {} THEN Return(CHOOSE f \in formats : TRUE)
        ELSE Raise("FormatAutodetectionError", "No suitable formats", {})

\* autodetect_format(content), given the guesses of the format classes
autodetect_format(guesses) ==
    LET formats == CollectFormats(guesses, {})
    IN  IF Cardinality(formats) = 1 THEN Return(CHOOSE f \in formats : TRUE)
        ELSE IF formats = {} THEN Raise("FormatAutodetectionError", "No suitable formats", {})
        ELSE Raise("FormatAutodetectionError", "Multiple suitable formats", formats)

(***************************************************************************)
(* Specification of the format detector                                    *)
(***************************************************************************)
MaxContentLines == 2

SrtStamp1 == Ts(<<0, 0>>, <<0, 0>>, <<0, 1>>, ",", <<0, 0, 0>>)
SrtStamp2 == Ts(<<0, 0>>, <<0, 0>>, <<0, 2>>, ",", <<5, 0, 0>>)

\* the lines a fragment is made of
DetectLines ==
    { <<>>, <<Ch("a")>>, <<Mark("WEBVTT")>>, <<Mark("[Script Info]")>>,
      <<Mark("[V4+ Styles]")>>, <<Mark("[V4 Styles]")>>,
      <<SrtStamp1, SP, Arrow, SP, SrtStamp2>>, <<SrtStamp1>>,
      <<Mark("{0}{25}"), Ch("a")>>, <<Mark("[0][25]"), Ch("a")>>,
      <<Mark("00:00:01:"), Ch("a")>>, <<Mark("{\"")>> }

SeqsUpTo(S, n) == UNION { [1..k -> S] : k \in 0..n }

InitDetect ==
    /\ pc = "autodetect_format"
    /\ arg \in [content : SeqsUpTo(DetectLines, MaxContentLines)]
    /\ ret = None
    /\ subs = None
    /\ fp = <<>>
    /\ warned = <<>>

CallAutodetectFormat ==
    /\ pc = "autodetect_format"
    /\ \E sub \in SubstationFormat_guess_format(arg.content) :
          LET guesses == Guesses(arg.content, sub)
          IN  ret' = [guesses |-> guesses, result |-> autodetect_format(guesses)]
    /\ pc' = "done"
    /\ UNCHANGED <<arg, subs, fp, warned>>

NextDetect == CallAutodetectFormat

SpecDetect == InitDetect /\ [][NextDetect]_vars

\* the set of distinct non-None guesses of a finished detection
DistinctGuesses == {ret.guesses[i] : i \in 1..Len(ret.guesses)} \ {NoGuess}

\* C1: autodetect_format returns the identifier when the set of distinct
\* non-None guesses has exactly one element, raises 'No suitable formats' when
\* it is empty (as for the empty string) and raises naming the candidates when
\* it has two or more; it never returns an identifier in the last case.
C1_ThreeOutcomes ==
    pc = "done" =>
        /\ (\E f \in DistinctGuesses : DistinctGuesses = {f})
              => \A f \in DistinctGuesses : ret.result = Return(f)
        /\ DistinctGuesses = {}
              => ret.result = Raise("FormatAutodetectionError", "No suitable formats", {})
        /\ Cardinality(DistinctGuesses) >= 2
              => ret.result = Raise("FormatAutodetectionError",
                                    "Multiple suitable formats", DistinctGuesses)
        /\ arg.content = <<>> => DistinctGuesses = {}

\* C1 witness: two classes guessed the same identifier and two distinct
\* identifiers were guessed in all, so the detection failed
C1_Witness ==
    /\ pc = "done"
    /\ ret.guesses[2] = "ass" /\ ret.guesses[3] = "ass"
    /\ DistinctGuesses = {"ass", "microdvd"}
    /\ ret.result.k = "raise"

(***************************************************************************)
(* pysubs3/ssastyle.py and pysubs3/substation.py: styles and parse_tags    *)
(***************************************************************************)
SSAStyle(italic, bold, underline, strikeout, drawing) ==
    [italic |-> italic, bold |-> bold, underline |-> underline,
     strikeout |-> strikeout, drawing |-> drawing]

\* SSAStyle.DEFAULT_STYLE
DEFAULT_STYLE == SSAStyle(FALSE, FALSE, FALSE, FALSE, FALSE)

\* the directives of an override block: \i1 \i0 \u1 \u0 \s1 \s0 \p1 \p0, the
\* bare reset \r, the named reset \rS and the unrecognised \paws
RecognisedTags == {"i1", "i0", "u1", "u0", "s1", "s0", "p1", "p0", "r", "rS"}

\* mutant: a reset leaves the accumulated overrides in place
ApplyTag_no_reset(s, tag, style, styles) ==
    CASE tag = "i1" -> [s EXCEPT !.italic = TRUE]
      [] tag = "i0" -> [s EXCEPT !.italic = FALSE]
      [] tag = "u1" -> [s EXCEPT !.underline = TRUE]
      [] tag = "u0" -> [s EXCEPT !.underline = FALSE]
      [] tag = "s1" -> [s EXCEPT !.strikeout = TRUE]
      [] tag = "s0" -> [s EXCEPT !.strikeout = FALSE]
      [] tag = "p1" -> [s EXCEPT !.drawing = TRUE]
      [] tag = "p0" -> [s EXCEPT !.drawing = FALSE]
      [] OTHER -> s

\* one directive applied to the accumulated style s; style is the entry's base
\* style and styles the style table.  A reset naming a style that is not in
\* the table, and an unrecognised directive, change nothing.
ApplyTag(s, tag, style, styles) ==
    CASE tag = "r" -> style
      [] tag = "rS" -> IF "S" \in DOMAIN styles THEN styles["S"] ELSE s
      [] OTHER -> ApplyTag_no_reset(s, tag, style, styles)

\* mutant: only the first directive of a block is applied
ApplyTags_first_only(s, tags, style, styles) ==
    IF tags = <<>> THEN s ELSE ApplyTag(s, Head(tags), style, styles)

RECURSIVE ApplyTags(_, _, _, _)
\* the directives of one block, left to right
ApplyTags(s, tags, style, styles) ==
    IF tags = <<>> THEN s
    ELSE ApplyTags(ApplyTag(s, Head(tags), style, styles), Tail(tags), style, styles)

\* a styled run; nblocks counts the override blocks that precede it
Run(text, sty, nblocks) == [text |-> text, style |-> sty, nblocks |-> nblocks]

RECURSIVE ParseFrom(_, _, _, _, _)
\* the scan of parse_tags from token i on; st is [cur, sty, nblocks,
\* afterBlock, runs]: the text and the style of the open run, the blocks seen,
\* whether the previous token was a block, and the runs closed so far
ParseFrom(text, i, st, style, styles) ==
    IF i > Len(text) THEN st.runs \o <<Run(st.cur, st.sty, st.nblocks)>>
    ELSE IF text[i].k = "block"
    THEN ParseFrom(text, i + 1,
                   [cur |-> <<>>,
                    sty |-> ApplyTags(st.sty, text[i].g, style, styles),
                    nblocks |-> st.nblocks + 1,
                    afterBlock |-> TRUE,
                    runs |-> IF st.cur = <<>> /\ st.afterBlock THEN st.runs
                             ELSE st.runs \o <<Run(st.cur, st.sty, st.nblocks)>>],
                   style, styles)
    ELSE ParseFrom(text, i + 1,
                   [st EXCEPT !.cur = st.cur \o <<text[i]>>, !.afterBlock = FALSE],
                   style, styles)

\* parse_tags(text, style, styles): the runs (text, style) of a text
parse_tags(text, style, styles) ==
    ParseFrom(text, 1, [cur |-> <<>>, sty |-> style, nblocks |-> 0,
                        afterBlock |-> FALSE, runs |-> <<>>], style, styles)

(***************************************************************************)
(* pysubs3/ssaevent.py                                                     *)
(***************************************************************************)
\* the empty style table (styles=None)
NoStyles == [n \in {} |-> DEFAULT_STYLE]

\* mutant: every run must be a drawing
SSAEvent_is_drawing_all(text) ==
    LET runs == parse_tags(text, DEFAULT_STYLE, NoStyles)
    IN  \A i \in 1..Len(runs) : runs[i].style.drawing

\* SSAEvent.is_drawing
SSAEvent_is_drawing(text) ==
    LET runs == parse_tags(text, DEFAULT_STYLE, NoStyles)
    IN  \E i \in 1..Len(runs) : runs[i].style.drawing
(***************************************************************************)
(* Specification of the tag parser                                         *)
(***************************************************************************)
MaxTagItems == 4

\* the tokens a marked-up text is made of
TagItems ==
    { Ch("a"), Ch("b"), Block(<<"i1">>), Block(<<"i0">>), Block(<<"p1">>),
      Block(<<"p0">>), Block(<<"r">>), Block(<<"rS", "i1">>), Block(<<"paws">>) }

\* the style table of the test of the named reset: one bold style
OtherStyles == [n \in {"S"} |-> SSAStyle(FALSE, TRUE, FALSE, FALSE, FALSE)]

\* the base style and the style table parse_tags is called with
TagContexts ==
    { [style |-> DEFAULT_STYLE, styles |-> NoStyles],
      [style |-> DEFAULT_STYLE, styles |-> OtherStyles],
      [style |-> SSAStyle(TRUE, FALSE, FALSE, FALSE, FALSE), styles |-> OtherStyles] }

InitTags ==
    /\ pc = "parse_tags"
    /\ \E text \in SeqsUpTo(TagItems, MaxTagItems) : \E ctx \in TagContexts :
          arg = [text |-> text, style |-> ctx.style, styles |-> ctx.styles]
    /\ ret = None
    /\ subs = None
    /\ fp = <<>>
    /\ warned = <<>>

CallParseTags ==
    /\ pc = "parse_tags"
    /\ ret' = [runs |-> parse_tags(arg.text, arg.style, arg.styles)]
    /\ pc' = "is_drawing"
    /\ UNCHANGED <<arg, subs, fp, warned>>

CallIsDrawing ==
    /\ pc = "is_drawing"
    /\ ret' = [runs |-> ret.runs, is_drawing |-> SSAEvent_is_drawing(arg.text)]
    /\ pc' = "done"
    /\ UNCHANGED <<arg, subs, fp, warned>>

NextTags == CallParseTags \/ CallIsDrawing

SpecTags == InitTags /\ [][NextTags]_vars

(***************************************************************************)
(* What the claims about the tag parser speak of                           *)
(***************************************************************************)
IsBlock(t) == t.k = "block"
NotBlock(t) == t.k # "block"

RECURSIVE TagsOfBlocks(_, _)
\* the directives of the first n override blocks of a text, in order
TagsOfBlocks(text, n) ==
    IF n = 0 \/ text = <<>> THEN <<>>
    ELSE IF IsBlock(Head(text)) THEN Head(text).g \o TagsOfBlocks(Tail(text), n - 1)
    ELSE TagsOfBlocks(Tail(text), n)

RECURSIVE RunTexts(_)
\* the texts of the runs, concatenated
RunTexts(runs) == IF runs = <<>> THEN <<>> ELSE Head(runs).text \o RunTexts(Tail(runs))

\* the directives that precede run i of the finished parse
TagsBefore(i) == TagsOfBlocks(arg.text, ret.runs[i].nblocks)

\* the number of override blocks before the n-th literal token of the text
BlocksBeforeLiteral(text, n) ==
    LET at == CHOOSE p \in 1..Len(text) :
                  /\ NotBlock(text[p])
                  /\ Cardinality({q \in 1..p : NotBlock(text[q])}) = n
    IN  Cardinality({q \in 1..at : IsBlock(text[q])})

\* the last index of T whose directive is in S, or 0
LastOf(T, S) ==
    IF \E j \in 1..Len(T) : T[j] \in S
    THEN CHOOSE j \in 1..Len(T) : T[j] \in S /\ \A k \in (j + 1)..Len(T) : T[k] \notin S
    ELSE 0

\* the resets that take effect under the style table of the call
Resets == IF "S" \in DOMAIN arg.styles THEN {"r", "rS"} ELSE {"r"}

\* the style the last reset of T returns to (the base style when there is none)
ResetTarget(T) ==
    IF LastOf(T, Resets) # 0 /\ T[LastOf(T, Resets)] = "rS" THEN arg.styles["S"]
    ELSE arg.style

\* an on/off attribute after the directives T: the last of its directives after
\* the last reset decides, else the reset target's value
Attribute(T, on, off, inherited) ==
    LET r == LastOf(T, Resets)
        after == SubSeq(T, r + 1, Len(T))
        j == LastOf(after, {on, off})
    IN  IF j = 0 THEN inherited ELSE after[j] = on

ExpectedStyle(T) ==
    LET o == ResetTarget(T)
    IN  [italic |-> Attribute(T, "i1", "i0", o.italic),
         bold |-> o.bold,
         underline |-> Attribute(T, "u1", "u0", o.underline),
         strikeout |-> Attribute(T, "s1", "s0", o.strikeout),
         drawing |-> Attribute(T, "p1", "p0", o.drawing)]

\* the number of literal tokens in the runs before run i
LiteralsBeforeRun(i) == Len(RunTexts(SubSeq(ret.runs, 1, i - 1)))

\* C6: a text without an override block yields one run (the text, the base
\* style); otherwise the run texts concatenated are the text without its
\* blocks, each run's style is the base style overridden by the directives of
\* the blocks before it (the later directive wins), and a leading block yields
\* a first run with empty text and the base style.
C6_FoldLeftToRight ==
    pc \in {"is_drawing", "done"} =>
        /\ (\A p \in 1..Len(arg.text) : NotBlock(arg.text[p]))
              => ret.runs = <<Run(arg.text, arg.style, 0)>>
        /\ RunTexts(ret.runs) = SelectSeq(arg.text, NotBlock)
        /\ \A i \in 1..Len(ret.runs) :
              /\ ret.runs[i].style = ExpectedStyle(TagsBefore(i))
              /\ ret.runs[i].text # <<>> =>
                    ret.runs[i].nblocks =
                        BlocksBeforeLiteral(arg.text, LiteralsBeforeRun(i) + 1)
        /\ (arg.text # <<>> /\ IsBlock(arg.text[1]))
              => ret.runs[1] = Run(<<>>, arg.style, 0)

\* C6 witness: a{\i1}b{\i0} gives (a, base), (b, italic), ("", base)
C6_Witness ==
    /\ pc = "done"
    /\ arg.text = <<Ch("a"), Block(<<"i1">>), Ch("b"), Block(<<"i0">>)>>
    /\ arg.style = DEFAULT_STYLE
    /\ ret.runs = << Run(<<Ch("a")>>, DEFAULT_STYLE, 0),
                     Run(<<Ch("b")>>, SSAStyle(TRUE, FALSE, FALSE, FALSE, FALSE), 1),
                     Run(<<>>, DEFAULT_STYLE, 2) >>

\* C7: after a bare reset the style is the entry's base style, after a reset
\* naming a style of the table it is that style, in both cases overridden only
\* by the directives written after the reset; nothing written before the reset
\* affects the run.
C7_ResetDiscardsOverrides ==
    pc \in {"is_drawing", "done"} =>
        \A i \in 1..Len(ret.runs) :
            LET T == TagsBefore(i)
                r == LastOf(T, Resets)
            IN  r # 0 =>
                  /\ ret.runs[i].style =
                        ApplyTags(ResetTarget(T), SubSeq(T, r + 1, Len(T)),
                                  arg.style, arg.styles)
                  /\ r = Len(T) =>
                        ret.runs[i].style =
                            (IF T[r] = "r" THEN arg.style ELSE arg.styles["S"])

\* C7 witness: {\i1}a{\r}b gives ("", base), (a, italic), (b, base), and
\* a{\rS\i1}b gives (b, bold and italic)
C7_Witness ==
    /\ pc = "done"
    /\ arg.style = DEFAULT_STYLE
    /\ \/ /\ arg.text = <<Block(<<"i1">>), Ch("a"), Block(<<"r">>), Ch("b")>>
          /\ ret.runs = << Run(<<>>, DEFAULT_STYLE, 0),
                           Run(<<Ch("a")>>, SSAStyle(TRUE, FALSE, FALSE, FALSE, FALSE), 1),
                           Run(<<Ch("b")>>, DEFAULT_STYLE, 2) >>
       \/ /\ arg.text = <<Ch("a"), Block(<<"rS", "i1">>), Ch("b")>>
          /\ arg.styles = OtherStyles
          /\ ret.runs = << Run(<<Ch("a")>>, DEFAULT_STYLE, 0),
                           Run(<<Ch("b")>>, SSAStyle(TRUE, TRUE, FALSE, FALSE, FALSE), 1) >>

\* is_drawing of the entry against the runs of the same text, parsed as
\* is_drawing parses it (default style, no style table)
IsDrawingIffSomeRunDraws ==
    (pc = "done" /\ arg.style = DEFAULT_STYLE /\ arg.styles = NoStyles) =>
        (ret.is_drawing <=> \E i \in 1..Len(ret.runs) : ret.runs[i].style.drawing)

\* C8 as stated: a run is a drawing exactly when a \p1 precedes it with no \p0
\* in between; an unrecognised directive changes nothing; is_drawing is true
\* exactly when some run is a drawing.
C8_DrawingBetweenP1AndP0 ==
    /\ pc \in {"is_drawing", "done"} =>
          \A i \in 1..Len(ret.runs) :
              LET T == TagsBefore(i)
                  j == LastOf(T, {"p1", "p0"})
              IN  ret.runs[i].style.drawing <=> (j # 0 /\ T[j] = "p1")
    /\ IsDrawingIffSomeRunDraws

\* C8 amended: a run is a drawing exactly when the last of the \p1, \p0 and
\* effective reset directives before it is a \p1 (a reset leaves drawing mode);
\* an unrecognised directive changes nothing; is_drawing is true exactly when
\* some run is a drawing.
C8_DrawingUntilP0OrReset ==
    /\ pc \in {"is_drawing", "done"} =>
          \A i \in 1..Len(ret.runs) :
              LET T == TagsBefore(i)
                  j == LastOf(T, {"p1", "p0"} \cup Resets)
              IN  ret.runs[i].style.drawing <=> (j # 0 /\ T[j] = "p1")
    /\ IsDrawingIffSomeRunDraws

\* C8 witness: {\p1}a{\p0}b gives runs with drawing false, true, false and the
\* entry is a drawing
C8_Witness ==
    /\ pc = "done"
    /\ arg.text = <<Block(<<"p1">>), Ch("a"), Block(<<"p0">>), Ch("b")>>
    /\ arg.styles = NoStyles
    /\ Len(ret.runs) = 3
    /\ ~ret.runs[1].style.drawing /\ ret.runs[2].style.drawing /\ ~ret.runs[3].style.drawing
    /\ ret.runs[2].text = <<Ch("a")>>
    /\ ret.is_drawing

(***************************************************************************)
(* pysubs3/ssaevent.py: the event record                                   *)
(***************************************************************************)
\* language = None
NoLanguage == "<None>"

\* SSAEvent(start, end, text, type): the other fields at their defaults
SSAEvent(start, end, text, type) ==
    [start |-> start, end |-> end, text |-> text, marked |-> FALSE, layer |-> 0,
     style |-> "Default", name |-> "", marginl |-> 0, marginr |-> 0,
     marginv |-> 0, effect |-> "", type |-> type, language |-> NoLanguage]

\* SSAEvent.is_comment
SSAEvent_is_comment(e) == e.type = "Comment"

\* SSAEvent.equals(other): field-based equality
SSAEvent_equals(a, b) == a = b

(***************************************************************************)
(* pysubs3/subrip.py, pysubs3/webvtt.py: the writer                        *)
(***************************************************************************)
\* the escapes \h and \n of a text
EscH == Mark("\\h")
EscN == Mark("\\n")

\* text.replace(r"\h", " ").replace(r"\n", "\n")
ReplaceEscapes(text) ==
    [i \in 1..Len(text) |-> IF text[i] = EscH THEN SP
                            ELSE IF text[i] = EscN THEN NL ELSE text[i]]

RECURSIVE CollapseNewlines(_)
\* re.sub("\n+", "\n", text)
CollapseNewlines(text) ==
    IF Len(text) <= 1 THEN text
    ELSE IF text[1] = NL /\ text[2] = NL THEN CollapseNewlines(Tail(text))
    ELSE <<text[1]>> \o CollapseNewlines(Tail(text))

\* the fragment of a run in the markup of SubRip
StyledFragment(run, apply_styles) ==
    LET a == run.text
        b == IF apply_styles /\ run.style.italic
             THEN <<Html("<i>")>> \o a \o <<Html("</i>")>> ELSE a
        c == IF apply_styles /\ run.style.underline
             THEN <<Html("<u>")>> \o b \o <<Html("</u>")>> ELSE b
    IN  IF apply_styles /\ run.style.strikeout
        THEN <<Html("<s>")>> \o c \o <<Html("</s>")>> ELSE c

ContentNotUsable == [k |-> "raise", exc |-> "ContentNotUsable"]

RECURSIVE RenderRuns(_, _, _)
\* the loop over parse_tags in prepare_text: the body, or ContentNotUsable at
\* the first run in drawing mode
RenderRuns(runs, apply_styles, body) ==
    IF runs = <<>> THEN Return(body)
    ELSE IF Head(runs).style.drawing THEN ContentNotUsable
    ELSE RenderRuns(Tail(runs), apply_styles,
                    body \o StyledFragment(Head(runs), apply_styles))

\* mutant: a run in drawing mode is left out and the other runs are kept
to_file_prepare_text_skip_run(text, style, styles, apply_styles, keep_ssa_tags) ==
    LET t == ReplaceEscapes(text)
        runs == SelectSeq(parse_tags(t, style, styles), LAMBDA r : ~r.style.drawing)
        body == IF keep_ssa_tags THEN Return(t) ELSE RenderRuns(runs, apply_styles, <<>>)
    IN  Return(CollapseNewlines(Strip(body.value)))

\* prepare_text(text, style) of to_file
to_file_prepare_text(text, style, styles, apply_styles, keep_ssa_tags) ==
    LET t == ReplaceEscapes(text)
        body == IF keep_ssa_tags THEN Return(t)
                ELSE RenderRuns(parse_tags(t, style, styles), apply_styles, <<>>)
    IN  IF body.k = "raise" THEN body
        ELSE Return(CollapseNewlines(Strip(body.value)))

\* SubripFormat._get_visible_lines(subs)
SubripFormat_get_visible_lines(events) ==
    SelectSeq(events, LAMBDA line : ~SSAEvent_is_comment(line))

RECURSIVE InsertByStart(_, _)
\* one step of the stable sort: e goes after the entries that start no later
InsertByStart(sorted, e) ==
    IF sorted = <<>> THEN <<e>>
    ELSE IF Head(sorted).start <= e.start
         THEN <<Head(sorted)>> \o InsertByStart(Tail(sorted), e)
    ELSE <<e>> \o sorted

RECURSIVE SortByStart(_, _)
\* visible_lines.sort(key=lambda e: e.start)
SortByStart(lines, sorted) ==
    IF lines = <<>> THEN sorted
    ELSE SortByStart(Tail(lines), InsertByStart(sorted, Head(lines)))

\* mutant: the entries are filtered but not sorted
WebVTTFormat_get_visible_lines_unsorted(events) ==
    SelectSeq(events, LAMBDA line : ~SSAEvent_is_comment(line))

\* WebVTTFormat._get_visible_lines(subs)
WebVTTFormat_get_visible_lines(events) ==
    SortByStart(SelectSeq(events, LAMBDA line : ~SSAEvent_is_comment(line)), <<>>)

get_visible_lines(cls, events) ==
    IF cls = "vtt" THEN WebVTTFormat_get_visible_lines(events)
    ELSE SubripFormat_get_visible_lines(events)

\* subs.styles.get(line.style, SSAStyle.DEFAULT_STYLE)
StylesGet(styles, name) == IF name \in DOMAIN styles THEN styles[name] ELSE DEFAULT_STYLE

\* the three print() calls of one cue
CueChunks(lineno, start, end, text) ==
    << Str(lineno) \o <<NL>>,
       <<start, SP, Arrow, SP, end, NL>>,
       text \o <<NL, NL>> >>

\* mutant: an entry that is skipped still consumes its number
ToFileStep_count_skipped(st, line, cls, styles, apply_styles, keep_ssa_tags) ==
    LET start == ms_to_timestamp(cls, line.start)
        end == ms_to_timestamp(cls, line.end)
        text == to_file_prepare_text(line.text, StylesGet(styles, line.style), styles,
                                     apply_styles, keep_ssa_tags)
        warn == st.warn \o start.warn \o end.warn
    IN  IF text.k = "raise" THEN [st EXCEPT !.warn = warn, !.lineno = st.lineno + 1]
        ELSE [fp |-> st.fp \o CueChunks(st.lineno, start.str, end.str, text.value),
              lineno |-> st.lineno + 1, warn |-> warn]

\* one iteration of the loop of to_file; st is [fp, lineno, warn]
ToFileStep(st, line, cls, styles, apply_styles, keep_ssa_tags) ==
    LET start == ms_to_timestamp(cls, line.start)
        end == ms_to_timestamp(cls, line.end)
        text == to_file_prepare_text(line.text, StylesGet(styles, line.style), styles,
                                     apply_styles, keep_ssa_tags)
        warn == st.warn \o start.warn \o end.warn
    IN  IF text.k = "raise" THEN [st EXCEPT !.warn = warn]
        ELSE [fp |-> st.fp \o CueChunks(st.lineno, start.str, end.str, text.value),
              lineno |-> st.lineno + 1, warn |-> warn]

RECURSIVE ToFileLoop(_, _, _, _, _, _)
ToFileLoop(st, lines, cls, styles, apply_styles, keep_ssa_tags) ==
    IF lines = <<>> THEN st
    ELSE ToFileLoop(ToFileStep(st, Head(lines), cls, styles, apply_styles, keep_ssa_tags),
                    Tail(lines), cls, styles, apply_styles, keep_ssa_tags)

\* SubripFormat.to_file(subs, fp, format_, apply_styles, keep_ssa_tags), for the
\* class cls it is called on; file is what fp holds already
SubripFormat_to_file(cls, s, file, apply_styles, keep_ssa_tags) ==
    ToFileLoop([fp |-> file, lineno |-> 1, warn |-> <<>>],
               get_visible_lines(cls, s.events), cls, s.styles,
               apply_styles, keep_ssa_tags)

\* print("WEBVTT\n", file=fp)
WebVTTHeader == <<Mark("WEBVTT"), NL, NL>>

\* WebVTTFormat.to_file(subs, fp, format_, **kwargs)
WebVTTFormat_to_file(s, file, apply_styles, keep_ssa_tags) ==
    SubripFormat_to_file("vtt", s, file \o <<WebVTTHeader>>, apply_styles, keep_ssa_tags)

to_file(cls, s, file, apply_styles, keep_ssa_tags) ==
    IF cls = "vtt" THEN WebVTTFormat_to_file(s, file, apply_styles, keep_ssa_tags)
    ELSE SubripFormat_to_file("srt", s, file, apply_styles, keep_ssa_tags)

(***************************************************************************)
(* pysubs3/subrip.py, pysubs3/webvtt.py: the reader                        *)
(***************************************************************************)
\* SubripFormat.timestamp_to_ms(groups)
SubripFormat_timestamp_to_ms(groups) == timestamp_to_ms(groups)

\* WebVTTFormat.timestamp_to_ms(groups)
WebVTTFormat_timestamp_to_ms(groups) ==
    LET h == IF groups[1] = <<>> THEN 0 ELSE IntOf(groups[1])
    IN  make_time(h, IntOf(groups[2]), IntOf(groups[3]), IntOf(groups[4]),
                  None, None, None).value

cls_timestamp_to_ms(cls, groups) ==
    IF cls = "vtt" THEN WebVTTFormat_timestamp_to_ms(groups)
    ELSE SubripFormat_timestamp_to_ms(groups)

RECURSIVE SplitLines(_, _)
\* for line in fp: the lines of the file, each with its line break
SplitLines(text, line) ==
    IF text = <<>> THEN (IF line = <<>> THEN <<>> ELSE <<line>>)
    ELSE IF Head(text) = NL THEN <<line \o <<NL>>>> \o SplitLines(Tail(text), <<>>)
    ELSE SplitLines(Tail(text), line \o <<Head(text)>>)

RECURSIVE Concat(_)
\* "".join(lines)
Concat(chunks) == IF chunks = <<>> THEN <<>> ELSE Head(chunks) \o Concat(Tail(chunks))

\* the lines of the file the chunks were printed to
FileLines(file) == SplitLines(Concat(file), <<>>)

\* one iteration of the scan of from_file; st is [timestamps, following_lines]
ReadStep(st, line, cls) ==
    LET stamps == FindAll(cls, line)
    IN  IF Len(stamps) = 2
        THEN [timestamps |-> st.timestamps \o
                  << <<cls_timestamp_to_ms(cls, stamps[1]),
                       cls_timestamp_to_ms(cls, stamps[2])>> >>,
              following_lines |-> st.following_lines \o << <<>> >>]
        ELSE IF st.timestamps # <<>>
        THEN [st EXCEPT !.following_lines[Len(st.following_lines)] = @ \o <<line>>]
        ELSE st

RECURSIVE ReadLoop(_, _, _)
ReadLoop(st, lines, cls) ==
    IF lines = <<>> THEN st ELSE ReadLoop(ReadStep(st, Head(lines), cls), Tail(lines), cls)

\* re.match(r"\s*$", line)
IsBlankLine(line) == \A i \in 1..Len(line) : IsSpace(line[i])

\* the number of tokens at the end of text that are in the set S
TrailingCount(text, S) ==
    LET stops == {i \in 1..Len(text) : text[i] \notin S}
        last == IF stops = {} THEN 0 ELSE CHOOSE i \in stops : \A j \in stops : j <= i
    IN  Len(text) - last

\* the characters \d matches
DigitTokens == {DigitChar(d) : d \in 0..9}

\* re.match(r"\s*\d+\s*$", line)
IsNumberLine(line) ==
    LET a == RStrip(line)
        d == TrailingCount(a, DigitTokens)
    IN  d >= 1 /\ IsBlankLine(SubSeq(a, 1, Len(a) - d))

\* re.sub(r"\n+ *\d+ *$", "", s) on a stripped s: strip number of next subtitle
StripNumber(text) ==
    LET d == TrailingCount(text, DigitTokens)
        a == SubSeq(text, 1, Len(text) - d)
        b == SubSeq(a, 1, Len(a) - TrailingCount(a, {SP}))
        n == TrailingCount(b, {NL})
    IN  IF d >= 1 /\ n >= 1 THEN SubSeq(b, 1, Len(b) - n) ELSE text

\* BeautifulSoup(s, "html.parser").get_text(): the text without its tags
GetText(text) == SelectSeq(text, LAMBDA t : t.k # "html")

\* mutant: the number of the next subtitle is left in the text
from_file_prepare_text_keep_number(lines, keep_html_tags) ==
    LET a == Strip(Concat(lines))
    IN  IF keep_html_tags THEN a ELSE Strip(GetText(a))

\* prepare_text(lines) of from_file
from_file_prepare_text(lines, keep_html_tags) ==
    IF /\ Len(lines) >= 2
       /\ \A i \in 1..(Len(lines) - 1) : IsBlankLine(lines[i])
       /\ IsNumberLine(lines[Len(lines)])
    THEN <<>>
    ELSE LET a == Strip(Concat(lines))
             b == StripNumber(a)
         IN  IF keep_html_tags THEN b ELSE Strip(GetText(b))

\* SubripFormat.from_file(subs, fp, format_, keep_html_tags, detect_language),
\* for the class cls it is called on; language is what get_language answers
\* (None without detect_language)
SubripFormat_from_file(cls, s, file, keep_html_tags, language) ==
    LET st == ReadLoop([timestamps |-> <<>>, following_lines |-> <<>>],
                       FileLines(file), cls)
    IN  [s EXCEPT !.events =
            [i \in 1..Len(st.timestamps) |->
                [SSAEvent(st.timestamps[i][1], st.timestamps[i][2],
                          from_file_prepare_text(st.following_lines[i], keep_html_tags),
                          "Dialogue") EXCEPT !.language = language]]]

(***************************************************************************)
(* Specification of writing a collection and reading it back               *)
(***************************************************************************)
MaxEvents == 2

\* the style table of the collection
FileStyles == [n \in {"Default", "S"} |->
                  IF n = "S" THEN SSAStyle(FALSE, TRUE, FALSE, FALSE, FALSE)
                  ELSE DEFAULT_STYLE]

A == Ch("a")
B == Ch("b")
Four == Ch("4")

\* the entries a collection is made of
FileEvents ==
    { SSAEvent(1, 2000, <<A>>, "Dialogue"),
      SSAEvent(3000, 4500, <<A>>, "Dialogue"),
      SSAEvent(1, 2000, <<B>>, "Dialogue"),
      SSAEvent(3000, 4500, <<A, NL, B>>, "Dialogue"),
      SSAEvent(1, 2000, <<A, NL, Four>>, "Dialogue"),
      SSAEvent(1, 2000, <<Four>>, "Dialogue"),
      SSAEvent(1, 2000, <<>>, "Dialogue"),
      SSAEvent(1, 2000, <<A, NL, NL, B>>, "Dialogue"),
      SSAEvent(1, 2000, <<SrtStamp1, SP, Arrow, SP, SrtStamp2>>, "Dialogue"),
      SSAEvent(1, 2000, <<A, EscH, B>>, "Dialogue"),
      SSAEvent(1, 2000, <<Block(<<"i1">>), A, Block(<<"i0">>), B>>, "Dialogue"),
      SSAEvent(1, 2000, <<A, Block(<<"p1">>), B, Block(<<"p0">>), A>>, "Dialogue"),
      SSAEvent(3000, 360000000, <<A>>, "Dialogue"),
      SSAEvent(0, 359999999, <<B>>, "Dialogue"),
      SSAEvent(1, 2000, <<A>>, "Comment") }

FileFormats == {"srt", "vtt"}

\* what get_language answers for the texts of a file
Languages == {"en"}

InitFile ==
    /\ pc = "to_file"
    /\ subs \in [events : SeqsUpTo(FileEvents, MaxEvents), styles : {FileStyles}]
    /\ arg = None
    /\ ret = None
    /\ fp = <<>>
    /\ warned = <<>>

CallToFile ==
    /\ pc = "to_file"
    /\ \E cls \in FileFormats : \E apply_styles \in BOOLEAN : \E keep_ssa_tags \in BOOLEAN :
          LET r == to_file(cls, subs, fp, apply_styles, keep_ssa_tags)
          IN  /\ fp' = r.fp
              /\ warned' = warned \o r.warn
              /\ arg' = [cls |-> cls, apply_styles |-> apply_styles,
                         keep_ssa_tags |-> keep_ssa_tags, keep_html_tags |-> FALSE,
                         language |-> NoLanguage, before |-> subs.events]
    /\ pc' = "from_file"
    /\ UNCHANGED <<ret, subs>>

CallFromFile ==
    /\ pc = "from_file"
    /\ \E keep_html_tags \in BOOLEAN : \E language \in {NoLanguage} \cup Languages :
          /\ subs' = SubripFormat_from_file(arg.cls, subs, fp, keep_html_tags, language)
          /\ arg' = [arg EXCEPT !.keep_html_tags = keep_html_tags, !.language = language]
    /\ pc' = "done"
    /\ UNCHANGED <<ret, fp, warned>>

NextFile == CallToFile \/ CallFromFile

SpecFile == InitFile /\ [][NextFile]_vars

(***************************************************************************)
(* What the claims about the writer speak of                               *)
(***************************************************************************)
\* to_file has run: fp holds the file, arg.before the entries it was given
Written == pc \in {"from_file", "done"}

\* the chunks before the first cue (the WebVTT header)
CueOffset == IF arg.cls = "vtt" THEN 1 ELSE 0

\* the number of cues in the file, at three print() calls a cue
NumCues == (Len(fp) - CueOffset) \div 3

CueNumber(j) == fp[CueOffset + 3 * j - 2]
CueStamps(j) == fp[CueOffset + 3 * j - 1]
CueText(j) == fp[CueOffset + 3 * j]

\* the timestamp line of an entry
StampLine(e) ==
    <<ms_to_timestamp(arg.cls, e.start).str, SP, Arrow, SP,
      ms_to_timestamp(arg.cls, e.end).str, NL>>

\* the entry's text resolves to at least one run in drawing mode
HasDrawingRun(e) ==
    LET runs == parse_tags(ReplaceEscapes(e.text), StylesGet(FileStyles, e.style),
                           FileStyles)
    IN  \E i \in 1..Len(runs) : runs[i].style.drawing

\* the entries of the collection that are not comments, in the writer's order
VisibleBefore == get_visible_lines(arg.cls, arg.before)

C3_NumbersAreConsecutive ==
    Written =>
        /\ (Len(fp) - CueOffset) % 3 = 0
        /\ \A j \in 1..NumCues : CueNumber(j) = Str(j) \o <<NL>>
        /\ NumCues = Cardinality({ i \in 1..Len(arg.before) :
                                     /\ arg.before[i].type # "Comment"
                                     /\ arg.keep_ssa_tags \/ ~HasDrawingRun(arg.before[i]) })
        /\ \A j \in 1..NumCues : \E i \in 1..Len(arg.before) :
              /\ arg.before[i].type # "Comment"
              /\ CueStamps(j) = StampLine(arg.before[i])

\* C3 witness: a comment followed by an entry that is not a comment gave one
\* cue, numbered 1 and carrying the second entry's timestamps
C3_Witness ==
    /\ Written
    /\ Len(arg.before) = 2
    /\ arg.before[1].type = "Comment"
    /\ arg.before[2].type # "Comment"
    /\ NumCues = 1
    /\ CueNumber(1) = Str(1) \o <<NL>>
    /\ CueStamps(1) = StampLine(arg.before[2])

(***************************************************************************)
(* What the claims about the round trip speak of                           *)
(***************************************************************************)
\* plain text: characters and line breaks only (no override block, no escape,
\* no markup), without white space at either end
IsPlainText(text) ==
    /\ \A i \in 1..Len(text) : text[i].k \in {"ch", "ts"} \/ text[i] = Arrow
    /\ text = <<>> \/ (~IsSpace(text[1]) /\ ~IsSpace(text[Len(text)]))

\* an entry the round trip is claimed for
IsRoundTripEntry(e) ==
    /\ e.type # "Comment"
    /\ e.start \in 0..359999999 /\ e.end \in 0..359999999
    /\ IsPlainText(e.text)
    /\ e = SSAEvent(e.start, e.end, e.text, e.type)

\* the collection in arg.before was written by the SubRip writer and the file
\* was read back by the SubRip reader, without language detection
RoundTripDone ==
    /\ pc = "done" /\ arg.cls = "srt" /\ arg.language = NoLanguage
    /\ \A i \in 1..Len(arg.before) : IsRoundTripEntry(arg.before[i])

\* as many entries as before, in the same order, each equal to the original
SameEntries ==
    /\ Len(subs.events) = Len(arg.before)
    /\ \A i \in 1..Len(arg.before) : SSAEvent_equals(subs.events[i], arg.before[i])

\* the text has an empty line inside
HasEmptyLine(text) == \E i \in 1..(Len(text) - 1) : text[i] = NL /\ text[i + 1] = NL

\* the lines of a text, without their line breaks
TextLines(text) ==
    LET ls == SplitLines(text \o <<NL>>, <<>>)
    IN  [i \in 1..Len(ls) |-> SubSeq(ls[i], 1, Len(ls[i]) - 1)]

\* a line of the text carries exactly two SubRip timestamps
HasStampLine(text) ==
    \E i \in 1..Len(TextLines(text)) : Len(FindAll("srt", TextLines(text)[i])) = 2

\* the text has several lines and the last is a number, possibly after spaces
EndsWithNumberLine(text) ==
    LET ls == TextLines(text)
        l == ls[Len(ls)]
    IN  /\ Len(ls) >= 2
        /\ \E d \in 1..Len(l) :
              /\ \A i \in 1..(Len(l) - d) : l[i] = SP
              /\ \A i \in (Len(l) - d + 1)..Len(l) : IsDigit(l[i])

\* C4 as stated: the round trip gives back any list of plain entries.
C4_RoundTripAnyPlainText == RoundTripDone => SameEntries

\* C4 amended: the round trip gives back a list of plain entries when no text
\* has an empty line inside, no line of a text carries exactly two timestamps
\* and the text of the last entry does not end with a line that is a number.
C4_RoundTripPlainText ==
    ( /\ RoundTripDone
      /\ \A i \in 1..Len(arg.before) :
            /\ ~HasEmptyLine(arg.before[i].text)
            /\ ~HasStampLine(arg.before[i].text)
      /\ arg.before # <<>> =>
            ~EndsWithNumberLine(arg.before[Len(arg.before)].text) )
    => SameEntries

\* C4 witness: two entries, the first with two lines of which the last is a
\* number, came back equal to the originals
C4_Witness ==
    /\ RoundTripDone /\ SameEntries
    /\ Len(arg.before) = 2
    /\ arg.before[1].text = <<A, NL, Four>>
    /\ arg.before[2].text = <<A, NL, B>>
    /\ subs.events[1].text = <<A, NL, Four>>

(***************************************************************************)
(* Specification of reading a file of arbitrary lines                      *)
(***************************************************************************)
MaxReadLines == 3

\* 00:00:01.50 and 00:00:02.000, matched by both timestamp patterns
VttStamp1 == Ts(<<0, 0>>, <<0, 0>>, <<0, 1>>, ".", <<5, 0>>)
VttStamp2 == Ts(<<0, 0>>, <<0, 0>>, <<0, 2>>, ".", <<0, 0, 0>>)

\* 00:03.000 and 00:04.500, matched by the WebVTT pattern only
VttShort1 == Ts(<<>>, <<0, 0>>, <<0, 3>>, ".", <<0, 0, 0>>)
VttShort2 == Ts(<<>>, <<0, 0>>, <<0, 4>>, ".", <<5, 0, 0>>)

\* the lines a file is made of
ReadLines ==
    { <<NL>>, <<A, NL>>, <<Four, NL>>,
      <<SrtStamp1, SP, Arrow, SP, SrtStamp2, NL>>,
      <<VttStamp1, SP, Arrow, SP, VttStamp2, NL>>,
      <<VttShort1, SP, Arrow, SP, VttShort2, NL>>,
      <<SrtStamp1, NL>>,
      <<VttStamp1, SP, VttStamp2, SP, VttStamp1, NL>>,
      <<Html("i"), B, Html("/i"), NL>> }

InitRead ==
    /\ pc = "from_file"
    /\ fp \in SeqsUpTo(ReadLines, MaxReadLines)
    /\ subs \in [events : {<<>>, <<SSAEvent(1, 2000, <<A>>, "Dialogue")>>},
                 styles : {FileStyles}]
    /\ \E cls \in FileFormats :
          arg = [cls |-> cls, apply_styles |-> TRUE, keep_ssa_tags |-> FALSE,
                 keep_html_tags |-> FALSE, language |-> NoLanguage,
                 before |-> subs.events]
    /\ ret = None
    /\ warned = <<>>

NextRead == CallFromFile

SpecRead == InitRead /\ [][NextRead]_vars

\* the positions of the lines of the file that the pattern of the format
\* matches exactly two times, in input order
StampLineNumbers ==
    LET lines == FileLines(fp)
        S == {i \in 1..Len(lines) : Len(FindAll(arg.cls, lines[i])) = 2}
    IN  [i \in 1..Cardinality(S) |->
            CHOOSE n \in S : Cardinality({m \in S : m < n}) = i - 1]

\* the milliseconds a matched timestamp denotes: a fraction of two digits
\* counts hundredths of a second, absent hours count as zero
Denotes(groups) == timestamp_to_ms(groups)

\* C5 as stated: the reader gives one entry for every line with exactly two
\* timestamps, in input order; its start and end are the times the two
\* timestamps denote and its body is made of the lines up to the next such
\* line (or the end of input); lines before the first such line are dropped
\* and the events the collection had are replaced.
C5_OneEntryPerStampLine ==
    pc = "done" =>
        LET lines == FileLines(fp)
            at == StampLineNumbers
            upto(j) == IF j < Len(at) THEN at[j + 1] - 1 ELSE Len(lines)
        IN  /\ Len(subs.events) = Len(at)
            /\ \A j \in 1..Len(at) :
                  LET stamps == FindAll(arg.cls, lines[at[j]])
                  IN  /\ subs.events[j].start = Denotes(stamps[1])
                      /\ subs.events[j].end = Denotes(stamps[2])
                      /\ subs.events[j].text =
                            from_file_prepare_text(
                                SubSeq(lines, at[j] + 1, upto(j)),
                                arg.keep_html_tags)

\* C5 witness: the WebVTT reader met the line 00:00:01.50 --> 00:00:02.000
\* followed by a line of text and opened one entry, starting at 1050 ms
C5_Witness ==
    /\ pc = "done" /\ arg.cls = "vtt"
    /\ fp = << <<Four, NL>>, <<VttStamp1, SP, Arrow, SP, VttStamp2, NL>>, <<A, NL>> >>
    /\ Len(subs.events) = 1
    /\ subs.events[1].start = 1050 /\ subs.events[1].end = 2000
    /\ subs.events[1].text = <<A>>

(***************************************************************************)
(* pysubs3/ssaevent.py: comparisons, duration and shift                    *)
(***************************************************************************)
\* (a1, a2) < (b1, b2) on tuples
TupleLt(x, y) == x[1] < y[1] \/ (x[1] = y[1] /\ x[2] < y[2])

\* SSAEvent.__eq__
SSAEvent_eq(a, b) == a.start = b.start /\ a.end = b.end

\* SSAEvent.__ne__
SSAEvent_ne(a, b) == a.start # b.start \/ a.end # b.end

\* mutant: the end time takes no part in the ordering
SSAEvent_lt_start_only(a, b) == a.start < b.start

\* SSAEvent.__lt__
SSAEvent_lt(a, b) == TupleLt(<<a.start, a.end>>, <<b.start, b.end>>)

\* SSAEvent.__le__
SSAEvent_le(a, b) ==
    \/ TupleLt(<<a.start, a.end>>, <<b.start, b.end>>)
    \/ <<a.start, a.end>> = <<b.start, b.end>>

\* SSAEvent.__gt__
SSAEvent_gt(a, b) == TupleLt(<<b.start, b.end>>, <<a.start, a.end>>)

\* SSAEvent.__ge__
SSAEvent_ge(a, b) ==
    \/ TupleLt(<<b.start, b.end>>, <<a.start, a.end>>)
    \/ <<a.start, a.end>> = <<b.start, b.end>>

\* SSAEvent.duration (getter)
SSAEvent_duration(e) == e.end - e.start

\* mutant: a negative duration is stored like any other
SSAEvent_set_duration_unchecked(e, ms) == Return([e EXCEPT !.end = e.start + ms])

\* SSAEvent.duration (setter): the event afterwards, or the exception
SSAEvent_set_duration(e, ms) ==
    IF ms >= 0 THEN Return([e EXCEPT !.end = e.start + ms])
    ELSE Raise("ValueError", "Subtitle duration cannot be negative", {})

\* Timestamps.frames_to_ms as shift uses it: ValueError for a frame before 0
ShiftedFrameToMs(fps, frame, time_type) ==
    IF frame < 0 THEN 0 ELSE Timestamps_frames_to_ms(fps, frame, time_type)

\* mutant: the times are moved but not kept from going below zero
SSAEvent_shift_unclamped(e, h, m, s, ms, frames, fps) ==
    LET delta == make_time(h, m, s, ms, None, None, None).value
    IN  Return([e EXCEPT !.start = e.start + delta, !.end = e.end + delta])

\* SSAEvent.shift(h, m, s, ms, frames, fps): the event afterwards, or the
\* exception; frames and fps are None or Some(value)
SSAEvent_shift(e, h, m, s, ms, frames, fps) ==
    IF frames = None /\ fps = None
    THEN LET delta == make_time(h, m, s, ms, None, None, None).value
         IN  Return([e EXCEPT !.start = Max(e.start + delta, 0),
                              !.end = Max(e.end + delta, 0)])
    ELSE IF frames = None \/ fps = None
    THEN Raise("ValueError", "Both fps and frames must be specified", {})
    ELSE LET start_frame == Timestamps_ms_to_frames(fps.v, e.start, START) + frames.v
             end_frame == Timestamps_ms_to_frames(fps.v, e.end, END) + frames.v
         IN  Return([e EXCEPT !.start = ShiftedFrameToMs(fps.v, start_frame, START),
                              !.end = ShiftedFrameToMs(fps.v, end_frame, END)])

(***************************************************************************)
(* Specification of the operations on an entry                             *)
(***************************************************************************)
\* the largest time an entry is moved to
MaxTime == 8

\* the times entries are constructed with
EventTimes == {0, 2, 5}

\* the entries constructed: any start and end, end < start included
EventSamples ==
    { SSAEvent(s, e, t, "Dialogue") : s \in EventTimes, e \in EventTimes, t \in {<<A>>, <<B>>} }

\* the arguments of a time-based shift: h, m, s, ms of either sign
ShiftTimes ==
    { <<0, 0, 0, 0>>, <<0, 0, 0, 1>>, <<0, 0, 0, 4>>, <<0, 0, 0, -1>>, <<0, 0, 0, -3>>,
      <<0, 0, 1, -998>>, <<0, 1, -60, -2>>, <<1, -60, 0, -6>>, <<-1, 59, 60, 1>> }

\* the arguments of a frame-based shift, at 500 frames per second
ShiftFrames == {None, Some(1), Some(-2)}

\* the durations assigned
Durations == {-3, -1, 0, 1, 4}

InitEvent ==
    /\ pc = "SSAEvent"
    /\ subs \in [events : [1..2 -> EventSamples], styles : {FileStyles}]
    /\ arg = None
    /\ ret = None
    /\ fp = <<>>
    /\ warned = <<>>

\* self and other of the operations
Self == subs.events[1]
Other == subs.events[2]

\* the entry stays within the times explored
InTimes(e) == e.start \in -MaxTime..MaxTime /\ e.end \in -MaxTime..MaxTime

\* self == other, self != other, self < other, ..., self.equals(other)
CallCompare ==
    /\ ret' = [eq |-> SSAEvent_eq(Self, Other), ne |-> SSAEvent_ne(Self, Other),
               lt |-> SSAEvent_lt(Self, Other), le |-> SSAEvent_le(Self, Other),
               gt |-> SSAEvent_gt(Self, Other), ge |-> SSAEvent_ge(Self, Other),
               equals |-> SSAEvent_equals(Self, Other)]
    /\ arg' = [before |-> Self]
    /\ pc' = "compare"
    /\ UNCHANGED <<subs, fp, warned>>

\* self.duration = ms, then reading self.duration
CallSetDuration ==
    /\ \E ms \in Durations :
          LET r == SSAEvent_set_duration(Self, ms)
              after == IF r.k = "return" THEN r.value ELSE Self
          IN  /\ InTimes(after)
              /\ subs' = [subs EXCEPT !.events[1] = after]
              /\ ret' = IF r.k = "return" THEN Return(SSAEvent_duration(after)) ELSE r
              /\ arg' = [before |-> Self, ms |-> ms]
    /\ pc' = "duration"
    /\ UNCHANGED <<fp, warned>>

\* self.shift(h, m, s, ms, frames, fps)
CallShift ==
    /\ \E t \in ShiftTimes : \E frames \in ShiftFrames : \E fps \in {None, Some(Fps(500, 1))} :
          LET r == SSAEvent_shift(Self, t[1], t[2], t[3], t[4], frames, fps)
              after == IF r.k = "return" THEN r.value ELSE Self
          IN  /\ frames # None \/ fps # None => t = <<0, 0, 0, 0>>
              /\ InTimes(after)
              /\ subs' = [subs EXCEPT !.events[1] = after]
              /\ ret' = IF r.k = "return" THEN Return(None) ELSE r
              /\ arg' = [before |-> Self, delta |-> times_to_ms(t[1], t[2], t[3], t[4]),
                         frames |-> frames, fps |-> fps]
    /\ pc' = "shift"
    /\ UNCHANGED <<fp, warned>>

NextEvent == CallCompare \/ CallSetDuration \/ CallShift

SpecEvent == InitEvent /\ [][NextEvent]_vars

\* C11: ==, != and the ordering of entries look at (start, end) only: == holds
\* iff both times are equal, != is its negation, < is the lexicographic order
\* of (start, end), exactly one of <, ==, > holds, <= is < or ==; equals holds
\* iff every field is equal and so implies ==.
C11_ComparisonsByStartEnd ==
    pc = "compare" =>
        /\ ret.eq <=> (Self.start = Other.start /\ Self.end = Other.end)
        /\ ret.ne <=> ~ret.eq
        /\ ret.lt <=> \/ Self.start < Other.start
                      \/ Self.start = Other.start /\ Self.end < Other.end
        /\ Cardinality({x \in {"lt", "eq", "gt"} : ret[x]}) = 1
        /\ ret.le <=> (ret.lt \/ ret.eq)
        /\ ret.ge <=> (ret.gt \/ ret.eq)
        /\ ret.equals <=> \A f \in DOMAIN Self : Self[f] = Other[f]
        /\ ret.equals => ret.eq

\* C11 witness: two entries with the same times and different texts compare
\* == although equals is false
C11_Witness ==
    /\ pc = "compare"
    /\ Self.text # Other.text
    /\ ret.eq /\ ~ret.equals /\ ~ret.lt /\ ~ret.gt /\ ret.le /\ ret.ge

\* C14: assigning a duration ms >= 0 sets end to start + ms and changes no
\* other field, and the duration read afterwards is ms; assigning a negative
\* duration raises ValueError and leaves the entry as it was.  An entry may
\* have been constructed with end < start.
C14_DurationSetter ==
    pc = "duration" =>
        IF arg.ms >= 0
        THEN /\ ret = Return(arg.ms)
             /\ Self.end = arg.before.start + arg.ms
             /\ \A f \in DOMAIN Self \ {"end"} : Self[f] = arg.before[f]
        ELSE /\ ret.k = "raise" /\ ret.exc = "ValueError"
             /\ Self = arg.before

\* C14 witness: an entry constructed with end < start refused the duration -1
\* and is as it was
C14_Witness ==
    /\ pc = "duration"
    /\ arg.before = SSAEvent(5, 2, <<A>>, "Dialogue")
    /\ arg.ms = -1
    /\ ret.k = "raise" /\ ret.exc = "ValueError"
    /\ Self = SSAEvent(5, 2, <<A>>, "Dialogue")

\* a time-based shift has run on self
TimeShifted == pc = "shift" /\ arg.frames = None /\ arg.fps = None

\* the shift would have taken a time of the entry below zero
Clamped == arg.before.start + arg.delta < 0 \/ arg.before.end + arg.delta < 0

\* what C17 says of every time-based shift, the duration apart
ShiftKeepsTimes ==
    /\ Self.start >= 0 /\ Self.end >= 0
    /\ arg.before.start <= arg.before.end => Self.start <= Self.end
    /\ Self.end - Self.start < arg.before.end - arg.before.start => Clamped
    /\ ~Clamped => /\ Self.start = arg.before.start + arg.delta
                   /\ Self.end = arg.before.end + arg.delta
    /\ \A f \in DOMAIN Self \ {"start", "end"} : Self[f] = arg.before[f]

\* C17 as stated: after a time-based shift both times are >= 0, start <= end is
\* kept, the duration never grows and shrinks only when a time was clamped at
\* 0, unclamped times move by the same delta and no other field changes.
C17_DurationNeverGrows ==
    TimeShifted =>
        /\ ShiftKeepsTimes
        /\ Self.end - Self.start <= arg.before.end - arg.before.start

\* C17 amended: the same, but the duration is only known not to grow for an
\* entry that had start <= end before the call.
C17_DurationNeverGrowsWhenOrdered ==
    TimeShifted =>
        /\ ShiftKeepsTimes
        /\ arg.before.start <= arg.before.end =>
              Self.end - Self.start <= arg.before.end - arg.before.start

\* C17 witness: the entry 2..5 shifted by -3 ms has its start clamped at 0 and
\* its duration shrunk from 3 to 2
C17_Witness ==
    /\ TimeShifted
    /\ arg.before = SSAEvent(2, 5, <<A>>, "Dialogue")
    /\ arg.delta = -3
    /\ Self = SSAEvent(0, 2, <<A>>, "Dialogue")

(***************************************************************************)
(* What the claim about the order of the cues speaks of                    *)
(***************************************************************************)
\* the positions in the collection of the entries that get a cue
CuedEntries ==
    { i \in 1..Len(arg.before) :
        /\ arg.before[i].type # "Comment"
        /\ arg.keep_ssa_tags \/ ~HasDrawingRun(arg.before[i]) }

\* entry j is written before entry i: by start, then by collection order, for
\* WebVTT; by collection order for SubRip
WrittenBefore(j, i) ==
    IF arg.cls = "vtt"
    THEN \/ arg.before[j].start < arg.before[i].start
         \/ arg.before[j].start = arg.before[i].start /\ j < i
    ELSE j < i

\* the number of the cue of entry i
CueOf(i) == 1 + Cardinality({ j \in CuedEntries : WrittenBefore(j, i) })

\* C12: the WebVTT writer writes the entries that are not comments sorted by
\* start, entries with equal start in collection order, and numbers them in
\* that order; the SubRip writer writes them in collection order; neither
\* changes the order of the collection.
C12_CuesInStartOrder ==
    Written =>
        /\ NumCues = Cardinality(CuedEntries)
        /\ \A i \in CuedEntries :
              /\ CueNumber(CueOf(i)) = Str(CueOf(i)) \o <<NL>>
              /\ CueStamps(CueOf(i)) = StampLine(arg.before[i])
              /\ CueText(CueOf(i)) =
                    to_file_prepare_text(
                        arg.before[i].text, StylesGet(FileStyles, arg.before[i].style),
                        FileStyles, arg.apply_styles, arg.keep_ssa_tags).value \o <<NL, NL>>
        /\ arg.cls = "vtt" =>
              \A i \in CuedEntries : \A j \in CuedEntries :
                 CueOf(j) < CueOf(i) => arg.before[j].start <= arg.before[i].start
        /\ pc = "from_file" => subs.events = arg.before

\* C12 witness: the WebVTT writer wrote the second entry of the collection,
\* which starts first, as cue 1 and left the collection in its order
C12_Witness ==
    /\ pc = "from_file" /\ arg.cls = "vtt"
    /\ arg.before = << SSAEvent(3000, 4500, <<A, NL, B>>, "Dialogue"),
                       SSAEvent(1, 2000, <<B>>, "Dialogue") >>
    /\ subs.events = arg.before
    /\ NumCues = 2
    /\ CueText(1) = <<B, NL, NL>>
    /\ CueText(2) = <<A, NL, B, NL, NL>>

(***************************************************************************)
(* What the claim about SubStation and SubRip signatures speaks of         *)
(***************************************************************************)
\* the detection has run on a text with a SubStation marker and a line on
\* which the timestamp pattern matches exactly twice
BothSignatures ==
    /\ pc = "done"
    /\ Contains(arg.content, "[Script Info]") \/ Contains(arg.content, "[V4+ Styles]")
    /\ \E i \in 1..Len(arg.content) : Len(FindAll("srt", arg.content[i])) = 2

\* C13 as stated: such a text fails with the ambiguous-format error.
C13_BothSignaturesAmbiguous ==
    BothSignatures =>
        /\ ret.result.k = "raise"
        /\ ret.result.msg = "Multiple suitable formats"

\* C13 amended: on such a text the SubRip class guesses nothing, so srt is
\* never a candidate and the two signatures alone never make the detection
\* ambiguous: when the SubStation identifier is the only guess it is returned.
C13_SubRipStandsBack ==
    BothSignatures =>
        /\ ret.guesses[1] = NoGuess
        /\ "srt" \notin DistinctGuesses
        /\ ret.result.k = "raise" => "srt" \notin ret.result.formats
        /\ \A f \in {"ass", "ssa"} : DistinctGuesses = {f} => ret.result = Return(f)
        /\ ret.result.k = "raise" /\ ret.result.msg = "Multiple suitable formats"
              => Cardinality(DistinctGuesses \ {"srt"}) >= 2

\* C13 witness: a styles section followed by a SubRip timestamp line is
\* detected as ass
C13_Witness ==
    /\ pc = "done"
    /\ arg.content = << <<Mark("[V4+ Styles]")>>, <<SrtStamp1, SP, Arrow, SP, SrtStamp2>> >>
    /\ ret.result = Return("ass")

(***************************************************************************)
(* Specification of make_time                                              *)
(***************************************************************************)
\* the arguments tried: h, m, s, ms need not be normalized and may be negative
MakeTimeArgs ==
    [h : {0, 1}, m : {0, -1, 90}, s : {0, 1, 120}, ms : {0, -1, 500},
     frames : {None, Some(0), Some(50)}, fps : {None, Some(Fps(25, 1))},
     time_type : {None, Some(START), Some(END)}]

InitMakeTime ==
    /\ pc = "make_time"
    /\ arg \in MakeTimeArgs
    /\ ret = None
    /\ subs = None
    /\ fp = <<>>
    /\ warned = <<>>

CallMakeTime ==
    /\ pc = "make_time"
    /\ ret' = make_time(arg.h, arg.m, arg.s, arg.ms, arg.frames, arg.fps, arg.time_type)
    /\ pc' = "done"
    /\ UNCHANGED <<arg, subs, fp, warned>>

NextMakeTime == CallMakeTime

SpecMakeTime == InitMakeTime /\ [][NextMakeTime]_vars

\* C15 as stated: without frames, fps and time_type make_time returns
\* times_to_ms(h, m, s, ms); with both frames and fps it returns the time of
\* the frame (2000 for frames=50, fps=25); with only one of frames and fps it
\* raises ValueError.
C15_MakeTimeDispatch ==
    pc = "done" =>
        /\ (arg.frames = None /\ arg.fps = None /\ arg.time_type = None)
              => ret = [k |-> "return",
                        value |-> arg.ms + 1000 * arg.s + 60000 * arg.m + 3600000 * arg.h]
        /\ (arg.frames # None /\ arg.fps # None)
              => /\ ret.k = "return"
                 /\ arg.time_type # None
                       => ret.value = Timestamps_frames_to_ms(arg.fps.v, arg.frames.v,
                                                              arg.time_type.v)
                 /\ (arg.time_type = None /\ arg.frames = Some(50) /\ arg.fps = Some(Fps(25, 1)))
                       => ret.value = 2000
        /\ ((arg.frames = None) # (arg.fps = None))
              => ret.k = "raise" /\ ret.exc = "ValueError"

\* C15 witness: make_time(frames=50, fps=25) raised ValueError
C15_Witness ==
    /\ pc = "done"
    /\ arg.frames = Some(50) /\ arg.fps = Some(Fps(25, 1)) /\ arg.time_type = None
    /\ ret.k = "raise" /\ ret.exc = "ValueError"

(***************************************************************************)
(* Specification of writing and parsing a WebVTT timestamp                 *)
(***************************************************************************)
\* the timestamps parsed: with and without hours, fractions of two and of
\* three digits
VttTexts ==
    { Ts(h, m, s, ".", f) :
        h \in {<<>>, <<0>>, <<0, 1>>, <<9, 9>>, <<1, 0, 0>>},
        m \in {<<0, 0>>, <<5, 9>>}, s \in {<<0, 0>>, <<0, 1>>, <<5, 9>>},
        f \in {<<4, 2>>, <<5, 0>>, <<0, 0>>, <<4, 2, 0>>, <<0, 0, 7>>, <<9, 9, 9>>} }

\* the instants written, from 0 to 99:59:59,999
VttInstants ==
    { times_to_ms(h, m, s, f) : h \in {0, 9, 10, 99}, m \in {0, 1, 59},
                                s \in {0, 1, 59}, f \in {0, 1, 42, 420, 999} }

InitVttStamp ==
    /\ \/ /\ pc = "ms_to_timestamp"
          /\ arg \in [from : {"ms"}, ms : VttInstants, text : {Ts(<<>>, <<>>, <<>>, ".", <<>>)}]
       \/ /\ pc = "timestamp_to_ms"
          /\ arg \in [from : {"text"}, ms : {0}, text : VttTexts]
    /\ ret = None
    /\ subs = None
    /\ fp = <<>>
    /\ warned = <<>>

\* WebVTTFormat.ms_to_timestamp(ms)
CallWebVTTMsToTimestamp ==
    /\ pc = "ms_to_timestamp"
    /\ LET r == WebVTTFormat_ms_to_timestamp(arg.ms)
       IN  /\ arg' = [arg EXCEPT !.text = r.str]
           /\ warned' = warned \o r.warn
    /\ pc' = "timestamp_to_ms"
    /\ UNCHANGED <<ret, subs, fp>>

\* WebVTTFormat.timestamp_to_ms on the groups of the first match of
\* WebVTTFormat.TIMESTAMP in the text
CallWebVTTTimestampToMs ==
    /\ pc = "timestamp_to_ms"
    /\ LET stamps == FindAll("vtt", <<arg.text>>)
       IN  ret' = IF stamps = <<>> THEN None
                  ELSE Return(WebVTTFormat_timestamp_to_ms(stamps[1]))
    /\ pc' = "done"
    /\ UNCHANGED <<arg, subs, fp, warned>>

NextVttStamp == CallWebVTTMsToTimestamp \/ CallWebVTTTimestampToMs

SpecVttStamp == InitVttStamp /\ [][NextVttStamp]_vars

\* the text is a timestamp H:MM:SS.f that both patterns match as a whole
MatchedByBoth ==
    /\ WebVTT_TIMESTAMP_matches(arg.text) /\ TIMESTAMP_matches(arg.text)
    /\ Len(arg.text.g[1]) \in 1..2 /\ Len(arg.text.g[4]) \in 2..3

\* C16 as stated: for a timestamp that both patterns match, with a fraction of
\* two or three digits, WebVTTFormat.timestamp_to_ms gives what
\* pysubs3.time.timestamp_to_ms gives (a fraction of two digits counts
\* hundredths of a second); and parsing WebVTTFormat.ms_to_timestamp(ms)
\* gives ms back for 0 <= ms <= 99:59:59,999.
C16_WebVTTTimestampValue ==
    pc = "done" =>
        /\ (arg.from = "text" /\ MatchedByBoth)
              => ret = Return(timestamp_to_ms(TIMESTAMP_groups(arg.text)))
        /\ (arg.from = "ms" /\ arg.ms \in 0..359999999)
              => ret = Return(arg.ms)

\* C16 witness: WebVTTFormat.timestamp_to_ms gives 42 for 0:00:00.42
C16_Witness ==
    /\ pc = "done"
    /\ arg.from = "text"
    /\ arg.text = Ts(<<0>>, <<0, 0>>, <<0, 0>>, ".", <<4, 2>>)
    /\ MatchedByBoth
    /\ ret = Return(42)

====
